---- MODULE Spec2Model ----
(***************************************************************************)
(* arc-git annotate: the orchestration loop of runAnnotate around git      *)
(* (log, show, notes show, notes add) and the generative backend.          *)
(* Texts (hashes, log lines, annotations, notes) are sequences of          *)
(* one-character strings; messages and statuses are string literals.       *)
(***************************************************************************)
EXTENDS Integers, Sequences, FiniteSets, TLC

\* ---------------------------------------------------------------- bounds
MaxCommits == 2      \* commits in the repository history
HashLen == 8         \* characters of a full hash (git prints 40)

\* ------------------------------------------------------ program constants
ShortLen == 7        \* commit.Hash[:7]

OutputFormats == {"table", "json", "yaml", "quiet"}

\* ------------------------------------------------------------------ texts
AuthorLine == <<"a">>
DateLine == <<"d">>
Subjects == {<<"s">>, <<>>}
DiffTexts == {<<"+">>, <<>>}
OldNote == <<"o">>
RawResponses == {<<" ", "x", " ">>, <<" ">>}

HashOf(k) == [j \in 1..HashLen |-> IF j = 1 THEN ToString(k) ELSE "0"]

RECURSIVE TrimLeft(_)
TrimLeft(s) ==
    IF s # <<>> /\ Head(s) = " " THEN TrimLeft(Tail(s)) ELSE s

RECURSIVE TrimRight(_)
TrimRight(s) ==
    IF s # <<>> /\ s[Len(s)] = " " THEN TrimRight(SubSeq(s, 1, Len(s) - 1)) ELSE s

\* strings.TrimSpace on a text
TrimSpace(s) == TrimRight(TrimLeft(s))

\* commit.Hash[:7]
ShortHash(h) == SubSeq(h, 1, ShortLen)

\* ------------------------------------------------------------ git log
\* One record of --format=%H%n%an <%ae>%n%ad%n%s
FormatCommit(c) == <<c.Hash, AuthorLine, DateLine, c.Subject>>

RECURSIVE FormatLog(_)
FormatLog(cs) ==
    IF cs = <<>> THEN <<>> ELSE FormatCommit(Head(cs)) \o FormatLog(Tail(cs))

Min(a, b) == IF a <= b THEN a ELSE b

\* git log --no-merges: from..to when from is given, -n<since> otherwise.
\* "HEAD~1..HEAD" is the newest commit and needs a second commit to resolve.
GitLogOk(hist, a) ==
    IF a.from # "" THEN Len(hist) >= 2 ELSE TRUE

GitLogLines(hist, a) ==
    IF a.from # ""
    THEN FormatLog(SubSeq(hist, 1, 1))
    ELSE FormatLog(SubSeq(hist, 1, Min(a.since, Len(hist))))

RECURSIVE DropLeadingEmpty(_)
DropLeadingEmpty(ls) ==
    IF ls # <<>> /\ Head(ls) = <<>> THEN DropLeadingEmpty(Tail(ls)) ELSE ls

RECURSIVE DropTrailingEmpty(_)
DropTrailingEmpty(ls) ==
    IF ls # <<>> /\ ls[Len(ls)] = <<>>
    THEN DropTrailingEmpty(SubSeq(ls, 1, Len(ls) - 1))
    ELSE ls

\* strings.Split(strings.TrimSpace(out), "\n") on newline-terminated lines:
\* blank lines at both ends vanish, and the empty text splits into one
\* empty line.
SplitTrimmed(ls) ==
    LET t == DropTrailingEmpty(DropLeadingEmpty(ls))
    IN  IF t = <<>> THEN << <<>> >> ELSE t

\* The parse loop of getCommits; i is Go's zero-based index.
RECURSIVE ParseFrom(_, _, _)
ParseFrom(lines, i, acc) ==
    IF ~(i + 3 <= Len(lines)) THEN [panic |-> FALSE, commits |-> acc]
    ELSE IF lines[i + 1] = <<>> THEN [panic |-> FALSE, commits |-> acc]
    ELSE IF i + 3 >= Len(lines) THEN [panic |-> TRUE, commits |-> acc]
    ELSE ParseFrom(lines, i + 4,
                   Append(acc, [Hash |-> lines[i + 1], Author |-> lines[i + 2],
                                Date |-> lines[i + 3], Message |-> lines[i + 4]]))

ParseCommits(lines) == ParseFrom(lines, 0, <<>>)

\* ------------------------------------------------------------ git notes
\* Faulty variant: a presence check that always finds a note
hasNoteAlways(ns, hash) == TRUE

\* Faulty variant: a presence check that never finds a note
hasNoteNever(ns, hash) == FALSE

\* hasNote: git notes --ref ai show <hash> exits 0
hasNote(ns, hash) == hash \in DOMAIN ns

\* git notes --ref ai add -F <file> <hash>, no -f: rejected when the commit
\* has a note; an empty message stores nothing and exits 0.
NotesAddOk(ns, hash) == hash \notin DOMAIN ns

NotesAdd(ns, hash, text) ==
    IF text = <<>> THEN ns
    ELSE [h \in DOMAIN ns \cup {hash} |-> IF h = hash THEN text ELSE ns[h]]

\* ------------------------------------------------------------------ state
VARIABLES
    history,     \* the repository's non-merge commits, newest first
    notes,       \* refs/notes/ai: commit hash -> note text
    tmpFiles,    \* arc-git-note-*.txt files in the temporary directory
    args,        \* the command line and the configuration it yields:
                 \* since, from, dryRun, force, out, cfgOk
    pc,          \* position in runAnnotate
    commits,     \* the candidates getCommits returned
    idx,         \* the loop's position in commits (1-based)
    diff,        \* the diff of the commit in hand
    annotation,  \* the annotation of the commit in hand
    annotated, skipped, failed,
    results,     \* []AnnotationResult
    stdout,      \* what has been printed, in order
    ret,         \* how runAnnotate ended: "", "nil", an error, "panic"
    calls,       \* the collaborator invocations of this run, in order
    notes0,      \* notes when this run started
    prev         \* the previous execution when it returned nil (ret "nil" and
                 \* the candidates it had); ret "" when there was none or it
                 \* ended with an error

vars == <<history, notes, tmpFiles, args, pc, commits, idx, diff, annotation,
          annotated, skipped, failed, results, stdout, ret, calls, notes0, prev>>

Args == [since : 1..MaxCommits, from : {"", "HEAD~1"}, dryRun : BOOLEAN,
         force : BOOLEAN, out : OutputFormats, cfgOk : BOOLEAN]

\* The histories of n commits. The subject only shows in the log output, so
\* a commit without a subject is taken as the oldest one only, with a
\* non-empty diff (and, in Init, without a note).
RepoCommits(n) ==
    {h \in [1..n -> [Hash : {HashOf(k) : k \in 1..n}, Subject : Subjects,
                     Diff : DiffTexts]] :
        \A k \in 1..n : /\ h[k].Hash = HashOf(k)
                        /\ (h[k].Subject = <<>> => (k = n /\ h[k].Diff # <<>>))}

Histories == UNION {RepoCommits(n) : n \in 0..MaxCommits}

HashesOf(hist) == {hist[k].Hash : k \in 1..Len(hist)}

Titled(hist) == {hist[k].Hash : k \in {j \in 1..Len(hist) : hist[j].Subject # <<>>}}

Init ==
    /\ history \in Histories
    /\ \E S \in SUBSET Titled(history) : notes = [h \in S |-> OldNote]
    /\ tmpFiles = 0
    /\ args \in Args
    /\ (args.from # "" => args.since = 1)   \* -n<since> is not passed with a range
    /\ pc = "idle"
    /\ commits = <<>>
    /\ idx = 0
    /\ diff = <<>>
    /\ annotation = <<>>
    /\ annotated = 0 /\ skipped = 0 /\ failed = 0
    /\ results = <<>>
    /\ stdout = <<>>
    /\ ret = ""
    /\ calls = <<>>
    /\ notes0 = notes
    /\ prev = [ret |-> "", commits |-> <<>>]

Progress(text) == [kind |-> "progress", text |-> text]

Summary(form) == [kind |-> "summary", text |-> form]

\* Faulty variant: progress printed in every output mode
logProgressUnconditional(out, text) == Append(out, Progress(text))

\* logProgress: printed in no mode but the text one
logProgress(out, text) ==
    IF args.out # "quiet" /\ args.out # "json" /\ args.out # "yaml"
    THEN Append(out, Progress(text)) ELSE out

AnnotationResult(h, st, msg, ann) ==
    [Hash |-> ShortHash(h), Status |-> st, Message |-> msg, Annotation |-> ann]

\* One collaborator invocation and how it ended
Call(op, h, ok) == [op |-> op, hash |-> h, ok |-> ok, why |-> ""]

\* addNote and the error it returned ("" for nil)
AddNoteCall(h, why) == [op |-> "addNote", hash |-> h, ok |-> why = "", why |-> why]

NoHash == <<>>

\* git show --format= <hash>
DiffOf(hash) ==
    history[CHOOSE k \in 1..Len(history) : history[k].Hash = hash].Diff

\* ---------------------------------------------------------------- actions
\* The command line is executed (again): runAnnotate starts.
Start ==
    /\ pc \in {"idle", "done"}
    /\ prev' = IF ret = "nil" THEN [ret |-> "nil", commits |-> commits]
                ELSE [ret |-> "", commits |-> <<>>]
    /\ pc' = "getCommits"
    /\ stdout' = logProgress(<<>>, "Starting git history annotation...")
    /\ commits' = <<>> /\ idx' = 0 /\ diff' = <<>> /\ annotation' = <<>>
    /\ annotated' = 0 /\ skipped' = 0 /\ failed' = 0
    /\ results' = <<>> /\ ret' = "" /\ calls' = <<>>
    /\ notes0' = notes
    /\ UNCHANGED <<history, notes, tmpFiles, args>>

\* getCommits: git log exits non-zero
GetCommitsFail ==
    /\ pc = "getCommits"
    /\ calls' = Append(calls, Call("log", NoHash, FALSE))
    /\ ret' = "failed to get commits"
    /\ pc' = "done"
    /\ UNCHANGED <<history, notes, tmpFiles, args, commits, idx, diff, annotation,
                   annotated, skipped, failed, results, stdout, notes0, prev>>

\* getCommits: git log succeeds and its output is parsed
GetCommits ==
    /\ pc = "getCommits"
    /\ GitLogOk(history, args)
    /\ calls' = Append(calls, Call("log", NoHash, TRUE))
    /\ LET parsed == ParseCommits(SplitTrimmed(GitLogLines(history, args)))
       IN  IF parsed.panic
           THEN /\ ret' = "panic" /\ pc' = "done"
                /\ UNCHANGED <<commits, stdout>>
           ELSE IF Len(parsed.commits) = 0
           THEN /\ stdout' = logProgress(stdout, "No commits to annotate.")
                /\ ret' = "nil" /\ pc' = "done"
                /\ UNCHANGED commits
           ELSE /\ commits' = parsed.commits
                /\ stdout' = logProgress(stdout, "Found commits to annotate")
                /\ pc' = "validate"
                /\ UNCHANGED ret
    /\ UNCHANGED <<history, notes, tmpFiles, args, idx, diff, annotation,
                   annotated, skipped, failed, results, notes0, prev>>

\* Faulty variant: the configuration taken as valid
ValidateConfigSkipped(cfgOk) == TRUE

\* ai.ValidateConfig(cfg) == nil: provider and credential are present
ValidateConfig(cfgOk) == cfgOk

\* ai.ValidateConfig, ai.NewClient, ai.NewService
Validate ==
    /\ pc = "validate"
    /\ \E outcome \in IF ValidateConfig(args.cfgOk)
                      THEN {"ok", "failed to create AI client"}
                      ELSE {"invalid AI configuration"} :
          /\ calls' = Append(calls, Call("validate", NoHash, outcome = "ok"))
          /\ IF outcome = "ok"
             THEN /\ pc' = "gate" /\ idx' = 1 /\ UNCHANGED ret
             ELSE /\ ret' = outcome /\ pc' = "done" /\ UNCHANGED idx
    /\ UNCHANGED <<history, notes, tmpFiles, args, commits, diff, annotation,
                   annotated, skipped, failed, results, stdout, notes0, prev>>

\* The commit in hand
Commit == commits[idx]

\* Faulty variant: the gate without the force flag
AlreadyAnnotatedIgnoringForce(force, ns, hash) == hasNote(ns, hash)

\* Line 200: !force && hasNote(commit.Hash, "ai")
AlreadyAnnotated(force, ns, hash) == ~force /\ hasNote(ns, hash)

\* Faulty variant: a failure recorded without its message
FailedResultNoMessage(h, msg) == AnnotationResult(h, "failed", "", <<>>)

\* The outcome of a commit that failed at one stage
FailedResult(h, msg) == AnnotationResult(h, "failed", msg, <<>>)

\* Faulty variant: the empty-diff check dropped
NoDiffNever(d) == FALSE

\* Line 224: len(diff) == 0
NoDiff(d) == Len(d) = 0

\* Faulty variant: the dry-run flag ignored
PreviewIgnored(dryRun) == FALSE

\* Line 250: if dryRun
Preview(dryRun) == dryRun

\* Faulty variant: the preview branch leaving the loop body before annotated++
PreviewNotCounted(n) == n

\* Line 276 after the preview branch, which has no continue: annotated++
PreviewCounted(n) == n + 1

\* Faulty variant: the loop takes the same commit again after an outcome
EmitRetry(res) ==
    /\ results' = Append(results, res)
    /\ idx' = idx
    /\ diff' = <<>> /\ annotation' = <<>>
    /\ pc' = "gate"

\* Faulty variant: an outcome appended twice
EmitTwice(res) ==
    /\ results' = Append(Append(results, res), res)
    /\ idx' = idx + 1
    /\ diff' = <<>> /\ annotation' = <<>>
    /\ pc' = "gate"

\* append(results, ...) followed by continue, or by the end of the body;
\* diff and annotation are locals of the loop body and end with it
Emit(res) ==
    /\ results' = Append(results, res)
    /\ idx' = idx + 1
    /\ diff' = <<>> /\ annotation' = <<>>
    /\ pc' = "gate"

\* Loop head and the annotation gate
Gate ==
    /\ pc = "gate"
    /\ idx <= Len(commits)
    /\ LET out1 == logProgress(stdout, "Processing")
       IN  IF AlreadyAnnotated(args.force, notes, Commit.Hash)
           THEN /\ stdout' = logProgress(out1, "Already annotated (use --force to re-annotate)")
                /\ skipped' = skipped + 1
                /\ Emit(AnnotationResult(Commit.Hash, "skipped", "already annotated", <<>>))
           ELSE /\ stdout' = out1
                /\ pc' = "diff"
                /\ UNCHANGED <<skipped, results, idx, diff, annotation>>
    /\ calls' = IF args.force THEN calls
                ELSE Append(calls, Call("hasNote", Commit.Hash, hasNote(notes, Commit.Hash)))
    /\ UNCHANGED <<history, notes, tmpFiles, args, commits,
                   annotated, failed, ret, notes0, prev>>

\* getCommitDiff and the two checks on its result
FetchDiff ==
    /\ pc = "diff"
    /\ \E ok \in BOOLEAN :
          /\ calls' = Append(calls, Call("show", Commit.Hash, ok))
          /\ IF ~ok
             THEN /\ stdout' = logProgress(stdout, "Failed to get diff")
                  /\ failed' = failed + 1
                  /\ Emit(FailedResult(Commit.Hash, "failed to get diff: git show failed"))
                  /\ UNCHANGED skipped
             ELSE IF NoDiff(DiffOf(Commit.Hash))
             THEN /\ stdout' = logProgress(stdout, "No diff (merge commit?), skipping")
                  /\ skipped' = skipped + 1
                  /\ Emit(AnnotationResult(Commit.Hash, "skipped",
                                           "no diff (merge commit?)", <<>>))
                  /\ UNCHANGED failed
             ELSE /\ diff' = DiffOf(Commit.Hash)
                  /\ stdout' = stdout
                  /\ pc' = "generate"
                  /\ UNCHANGED <<skipped, failed, results, idx, annotation>>
    /\ UNCHANGED <<history, notes, tmpFiles, args, commits,
                   annotated, ret, notes0, prev>>

\* generateAnnotation
Generate ==
    /\ pc = "generate"
    /\ \/ /\ calls' = Append(calls, Call("generate", Commit.Hash, FALSE))
          /\ stdout' = logProgress(logProgress(stdout, "Generating AI annotation..."),
                                   "Failed to generate annotation")
          /\ failed' = failed + 1
          /\ Emit(FailedResult(Commit.Hash,
                               "failed to generate annotation: AI request failed"))
       \/ \E resp \in RawResponses :
          /\ calls' = Append(calls, Call("generate", Commit.Hash, TRUE))
          /\ annotation' = TrimSpace(resp)
          /\ stdout' = logProgress(stdout, "Generating AI annotation...")
          /\ pc' = "save"
          /\ UNCHANGED <<failed, results, idx, diff>>
    /\ UNCHANGED <<history, notes, tmpFiles, args, commits,
                   annotated, skipped, ret, notes0, prev>>

\* Faulty variant: the staging file left behind
DeferredRemoveMissing(n) == n

\* Line 382: defer os.Remove(tmpFile.Name())
DeferredRemove(n) == n - 1

\* addNote returned an error: lines 259-266
AddNoteFailed(why) ==
    /\ calls' = Append(calls, AddNoteCall(Commit.Hash, why))
    /\ stdout' = logProgress(stdout, "Failed to add note")
    /\ failed' = failed + 1
    /\ Emit(FailedResult(Commit.Hash, "failed to add note"))
    /\ UNCHANGED <<notes, annotated>>

\* Lines 249-257 and 378-382: preview (then annotated++), or addNote is
\* entered and creates its staging file
Save ==
    /\ pc = "save"
    /\ IF Preview(args.dryRun)
       THEN /\ stdout' = logProgress(stdout, "--- Annotation ---")
            /\ Emit(AnnotationResult(Commit.Hash, "preview", "", annotation))
            /\ annotated' = PreviewCounted(annotated)
            /\ UNCHANGED <<notes, tmpFiles, failed, calls>>
       ELSE \E created \in BOOLEAN :
            IF created
            THEN /\ tmpFiles' = tmpFiles + 1
                 /\ pc' = "write"
                 /\ UNCHANGED <<notes, calls, stdout, failed, annotated,
                                results, idx, diff, annotation>>
            ELSE /\ AddNoteFailed("failed to create temp file")
                 /\ UNCHANGED tmpFiles
    /\ UNCHANGED <<history, args, commits,
                   skipped, ret, notes0, prev>>

\* Lines 384-387: the note text is written to the staging file
WriteNote ==
    /\ pc = "write"
    /\ \E written \in BOOLEAN :
          IF written
          THEN /\ pc' = "attach"
               /\ UNCHANGED <<notes, tmpFiles, calls, stdout, failed, annotated,
                              results, idx, diff, annotation>>
          ELSE /\ AddNoteFailed("failed to write note")
               /\ tmpFiles' = DeferredRemove(tmpFiles)
    /\ UNCHANGED <<history, args, commits,
                   skipped, ret, notes0, prev>>

\* Lines 389-395 and 258-276: git notes add, the deferred removal, and the
\* caller's two branches
Attach ==
    /\ pc = "attach"
    /\ tmpFiles' = DeferredRemove(tmpFiles)
    /\ IF NotesAddOk(notes, Commit.Hash)
       THEN /\ calls' = Append(calls, AddNoteCall(Commit.Hash, ""))
            /\ notes' = NotesAdd(notes, Commit.Hash, annotation)
            /\ stdout' = logProgress(stdout, "Annotated successfully")
            /\ Emit(AnnotationResult(Commit.Hash, "success", "", annotation))
            /\ annotated' = annotated + 1
            /\ UNCHANGED failed
       ELSE AddNoteFailed("git notes failed")
    /\ UNCHANGED <<history, args, commits,
                   skipped, ret, notes0, prev>>

\* Lines 279-312: the output switch after the loop
Output ==
    /\ pc = "gate"
    /\ idx > Len(commits)
    /\ \/ /\ args.out = "json"
          /\ \E encoded \in BOOLEAN :
                IF encoded
                THEN stdout' = Append(stdout, Summary("json")) /\ ret' = "nil"
                ELSE stdout' = stdout /\ ret' = "failed to encode JSON"
       \/ /\ args.out = "quiet"
          /\ stdout' = stdout /\ ret' = "nil"
       \/ /\ args.out \notin {"json", "quiet"}
          /\ stdout' = Append(stdout, Summary("text")) /\ ret' = "nil"
    /\ pc' = "done"
    /\ UNCHANGED <<history, notes, tmpFiles, args, commits, idx, diff, annotation,
                   annotated, skipped, failed, results, calls, notes0, prev>>

Next ==
    \/ Start
    \/ GetCommitsFail
    \/ GetCommits
    \/ Validate
    \/ Gate
    \/ FetchDiff
    \/ Generate
    \/ Save
    \/ WriteNote
    \/ Attach
    \/ Output

Spec == Init /\ [][Next]_vars

\* ------------------------------------------------------------ properties
InLoop == pc \in {"gate", "diff", "generate", "save", "write", "attach"}

\* The loop has ended and the output switch has run
Summarised == pc = "done" /\ idx > Len(commits) /\ commits # <<>>

CallsOf(op, h) == {k \in 1..Len(calls) : calls[k].op = op /\ calls[k].hash = h}

Candidates == {commits[k].Hash : k \in 1..Len(commits)}

\* C1: in every run that reaches the summary,
\* annotated + skipped + failed equals the number of candidate commits.
C1_CountInvariant ==
    Summarised => annotated + skipped + failed = Len(commits)

C1_Witness ==
    /\ Summarised
    /\ Len(commits) = 2
    /\ \E j \in 1..Len(results) : results[j].Status = "preview"
    /\ \E j \in 1..Len(results) : results[j].Status = "failed"

\* C2: every candidate produces exactly one outcome, in selector order: while
\* the loop runs the outcomes are those of the candidates before the one in
\* hand, the i-th outcome carries the short hash of the i-th candidate, and
\* after the loop there are as many outcomes as candidates.
C2_OneOutcomePerCommit ==
    /\ (InLoop => Len(results) = idx - 1)
    /\ (Summarised => Len(results) = Len(commits))
    /\ Len(results) <= Len(commits)
    /\ \A j \in 1..Len(results) : results[j].Hash = ShortHash(commits[j].Hash)

C2_Witness ==
    /\ Summarised
    /\ Len(results) = 2
    /\ results[1].Hash # results[2].Hash

\* C3: a run with --dry-run never invokes addNote and leaves the notes as they
\* were, so no candidate without a note before the run has one after it.
C3_DryRunWritesNothing ==
    args.dryRun =>
        /\ notes = notes0
        /\ \A k \in 1..Len(calls) : calls[k].op # "addNote"
        /\ \A h \in Candidates : ~hasNote(notes0, h) => ~hasNote(notes, h)

C3_Witness ==
    /\ args.dryRun /\ args.force
    /\ Summarised
    /\ \E j \in 1..Len(results) :
          /\ results[j].Status = "preview"
          /\ ~hasNote(notes, commits[j].Hash)
    /\ \E j \in 1..Len(results) :
          /\ results[j].Status = "preview"
          /\ hasNote(notes, commits[j].Hash)

PositionOf(h) == CHOOSE j \in 1..Len(commits) : commits[j].Hash = h

\* C4: a failed diff retrieval, generation or note write gives that commit an
\* outcome "failed" with a message, never ends the run, and once the loop has
\* been entered the run processes every candidate and returns nil, unless the
\* JSON encoding of the summary fails.
C4_FailureNotFatal ==
    /\ \A k \in 1..Len(calls) :
          (calls[k].op \in {"show", "generate", "addNote"} /\ ~calls[k].ok) =>
              LET j == PositionOf(calls[k].hash)
              IN  /\ j <= Len(results)
                  /\ results[j].Status = "failed"
                  /\ results[j].Message # ""
    /\ (InLoop => ret = "")
    /\ (pc = "done" /\ idx >= 1) =>
          /\ Len(results) = Len(commits)
          /\ \/ ret = "nil"
             \/ args.out = "json" /\ ret = "failed to encode JSON"

C4_Witness ==
    /\ Summarised
    /\ ret = "nil"
    /\ Len(results) = 2
    /\ results[1].Status = "failed"
    /\ results[2].Status = "success"

\* C5 (as claimed): with --force and without --dry-run, an already-annotated
\* commit whose generation succeeded and whose note text was staged ends
\* "success" with its note replaced by the new annotation.
C5_ForceOverwrites ==
    (pc = "done" /\ ret = "nil" /\ args.force /\ ~args.dryRun) =>
        \A j \in 1..Len(results) :
            LET h == commits[j].Hash
            IN  ( /\ hasNote(notes0, h)
                  /\ \E k \in CallsOf("generate", h) : calls[k].ok
                  /\ \A k \in CallsOf("addNote", h) : calls[k].why \in {"", "git notes failed"} )
                => /\ results[j].Status = "success"
                   /\ hasNote(notes, h)
                   /\ notes[h] = results[j].Annotation

\* C6 (as claimed): with --force an already-annotated commit ends "success"
\* or "failed".
C6_ForceSuccessOrFailed ==
    args.force =>
        \A j \in 1..Len(results) :
            hasNote(notes0, commits[j].Hash) =>
                results[j].Status \in {"success", "failed"}

\* C6 (amended): with --force an already-annotated commit passes the gate: no
\* presence check is made, its diff is fetched, it is never reported "already
\* annotated", and it ends "success" or "failed", or "skipped" with the
\* no-diff message when its diff is empty, or "preview" under --dry-run.
C6_ForceBypassesGate ==
    args.force =>
        \A j \in 1..Len(results) :
            LET h == commits[j].Hash
            IN  hasNote(notes0, h) =>
                /\ CallsOf("hasNote", h) = {}
                /\ CallsOf("show", h) # {}
                /\ results[j].Message # "already annotated"
                /\ results[j].Status \in {"success", "failed", "skipped", "preview"}
                /\ (results[j].Status = "skipped" =>
                        /\ results[j].Message = "no diff (merge commit?)"
                        /\ DiffOf(h) = <<>>)
                /\ (results[j].Status = "preview" => args.dryRun)

C6_Witness ==
    /\ args.force
    /\ Summarised
    /\ Len(results) = 2
    /\ hasNote(notes0, commits[1].Hash) /\ results[1].Status = "preview"
    /\ hasNote(notes0, commits[2].Hash) /\ results[2].Status = "skipped"

\* C7 (as claimed): a commit whose diff is empty is reported "skipped" with
\* the no-diff message, whatever the force flag and its note.
C7_EmptyDiffAlwaysNoDiff ==
    \A j \in 1..Len(results) :
        DiffOf(commits[j].Hash) = <<>> =>
            /\ results[j].Status = "skipped"
            /\ results[j].Message = "no diff (merge commit?)"

\* C7 (amended): a commit whose diff was fetched and is empty is reported
\* "skipped" with the no-diff message, with and without --force and a note;
\* an annotated commit run without --force is reported "already annotated"
\* and its diff is not fetched.
C7_FetchedEmptyDiffSkipped ==
    \A j \in 1..Len(results) :
        LET h == commits[j].Hash
        IN  /\ ((\E k \in CallsOf("show", h) : calls[k].ok) /\ DiffOf(h) = <<>>) =>
                  /\ results[j].Status = "skipped"
                  /\ results[j].Message = "no diff (merge commit?)"
            /\ (~args.force /\ hasNote(notes0, h)) =>
                  /\ results[j].Status = "skipped"
                  /\ results[j].Message = "already annotated"
                  /\ CallsOf("show", h) = {}

C7_Witness ==
    /\ args.force
    /\ Summarised
    /\ Len(results) = 2
    /\ \A j \in 1..2 : /\ DiffOf(commits[j].Hash) = <<>>
                       /\ results[j].Message = "no diff (merge commit?)"
    /\ hasNote(notes0, commits[1].Hash)
    /\ ~hasNote(notes0, commits[2].Hash)

\* The command line was run before this run and both runs returned nil over
\* the same candidates.
RanTwice ==
    /\ pc = "done"
    /\ ret = "nil" /\ prev.ret = "nil"
    /\ prev.commits = commits

\* C8 (as claimed): the second of two runs of one invocation without --force
\* skips every candidate, annotates none and changes no note.
C8_SecondRunSkipsAll ==
    (RanTwice /\ ~args.force) =>
        /\ skipped = Len(commits)
        /\ annotated = 0
        /\ notes = notes0

\* C8 (amended): the same, when every candidate carries a note as the second
\* run starts.
C8_SecondRunSkipsAnnotated ==
    (RanTwice /\ ~args.force /\ Candidates \subseteq DOMAIN notes0) =>
        /\ skipped = Len(commits)
        /\ annotated = 0
        /\ notes = notes0

C8_Witness ==
    /\ RanTwice /\ ~args.force /\ ~args.dryRun
    /\ Len(commits) = 2
    /\ Candidates \subseteq DOMAIN notes0
    /\ \A h \in Candidates : notes[h] = <<"x">>
    /\ skipped = 2
    /\ \A j \in 1..2 : results[j].Message = "already annotated"

\* The complete four-line records at the head of a log output, up to the
\* first one whose hash line is blank
CompleteRecords(lines) ==
    LET n == Len(lines) \div 4
        good == {k \in 1..n : \A m \in 1..k : lines[4 * m - 3] # <<>>}
    IN  [k \in 1..Cardinality(good) |->
            [Hash |-> lines[4 * k - 3], Author |-> lines[4 * k - 2],
             Date |-> lines[4 * k - 1], Message |-> lines[4 * k]]]

\* C9 (as claimed): whatever the number of lines git log printed, getCommits
\* returns the leading complete records without crashing; a last record
\* short of its four fields is dropped.
C9_IncompleteRecordDropped ==
    (\E k \in 1..Len(calls) : calls[k].op = "log" /\ calls[k].ok) =>
        /\ ret # "panic"
        /\ commits = CompleteRecords(SplitTrimmed(GitLogLines(history, args)))

\* C10 (as claimed): a run that returns nil has printed, in JSON or YAML mode,
\* one summary in that encoding and nothing else (also for an empty candidate
\* list); in quiet mode nothing; in text mode progress lines and then the
\* text summary.
C10_OutputModes ==
    (pc = "done" /\ ret = "nil") =>
        /\ (args.out \in {"json", "yaml"} => stdout = <<Summary(args.out)>>)
        /\ (args.out = "quiet" => stdout = <<>>)
        /\ (args.out = "table" /\ commits # <<>>) =>
              /\ Len(stdout) >= 2
              /\ stdout[Len(stdout)] = Summary("text")
              /\ \A k \in 1..(Len(stdout) - 1) : stdout[k].kind = "progress"

Statuses(st) == {j \in 1..Len(results) : results[j].Status = st}

\* C11 (as claimed): a dry run in which every candidate ends "preview"
\* reports annotated == 0.
C11_PreviewNotAnnotated ==
    (Summarised /\ args.dryRun /\ Statuses("preview") = 1..Len(commits)) =>
        annotated = 0

\* C11 (amended): in a dry run every "preview" outcome is counted in
\* annotated: annotated is the number of previews, and it is the number of
\* candidates when every candidate ends "preview".
C11_PreviewCountedAsAnnotated ==
    (args.dryRun /\ (pc = "gate" \/ Summarised)) =>
        /\ annotated = Cardinality(Statuses("preview"))
        /\ (Statuses("preview") = 1..Len(commits) => annotated = Len(commits))

C11_Witness ==
    /\ Summarised
    /\ args.dryRun
    /\ Len(commits) = 2
    /\ Statuses("preview") = {1, 2}
    /\ annotated = 2

NoSummary == \A k \in 1..Len(stdout) : stdout[k].kind # "summary"

ValidatedBeforeRequests ==
    \A k \in 1..Len(calls) :
        calls[k].op = "generate" =>
            \E v \in 1..(k - 1) : calls[v].op = "validate" /\ calls[v].ok

\* C12 (as claimed): the configuration is validated before any backend
\* request, and a run with an invalid configuration ends with an error and
\* no summary, whatever the candidate list.
C12_InvalidConfigAlwaysFatal ==
    /\ ValidatedBeforeRequests
    /\ (~args.cfgOk /\ pc = "done") => (ret # "nil" /\ NoSummary)

\* C12 (amended): the configuration is validated before any backend request;
\* a run with an invalid configuration makes no request and prints no
\* summary, and it ends with the configuration error when the candidate list
\* is not empty; with an empty list it returns nil unvalidated, and a failed
\* enumeration ends it first.
C12_InvalidConfigFatalWhenCandidates ==
    /\ ValidatedBeforeRequests
    /\ ~args.cfgOk =>
          /\ \A k \in 1..Len(calls) : calls[k].op \in {"log", "validate"}
          /\ NoSummary
          /\ results = <<>>
          /\ (pc = "done" /\ commits # <<>>) => ret = "invalid AI configuration"
          /\ (pc = "done" /\ commits = <<>>) =>
                /\ ret \in {"nil", "failed to get commits", "panic"}
                /\ \A k \in 1..Len(calls) : calls[k].op # "validate"

C12_Witness ==
    /\ ~args.cfgOk
    /\ pc = "done"
    /\ Len(commits) = 2
    /\ ret = "invalid AI configuration"

EnumerationFailed == pc = "done" /\ ret = "failed to get commits"

NothingDone ==
    /\ results = <<>>
    /\ commits = <<>>
    /\ calls = <<Call("log", NoHash, FALSE)>>
    /\ notes = notes0
    /\ tmpFiles = 0

\* C13 (as claimed): when the enumeration of commits fails, the run ends with
\* the error having printed nothing, recorded no outcome, fetched no diff,
\* made no backend request and written no note, in every output mode.
C13_EnumerationFailureSilent ==
    EnumerationFailed => (NothingDone /\ stdout = <<>>)

\* C13 (amended): the same, except that in text mode the line "Starting git
\* history annotation..." has been printed; no other line and no summary is
\* printed in any mode.
C13_EnumerationFailureAborts ==
    EnumerationFailed =>
        /\ NothingDone
        /\ stdout = IF args.out = "table"
                    THEN <<Progress("Starting git history annotation...")>>
                    ELSE <<>>

C13_Witness ==
    /\ EnumerationFailed
    /\ args.out = "table"
    /\ args.from = "HEAD~1"
    /\ Len(history) = 1
    /\ Len(stdout) = 1

\* --since N (no range, no dry-run) on a history of at least N commits, none
\* of the newest N annotated when the run starts
SinceOnFreshHistory ==
    /\ args.from = ""
    /\ ~args.dryRun
    /\ Len(history) >= args.since
    /\ \A k \in 1..args.since : history[k].Hash \notin DOMAIN notes0

\* No collaborator has failed in this run (a presence check that finds no
\* note is an answer, not a failure)
NoFailure == \A k \in 1..Len(calls) : calls[k].op # "hasNote" => calls[k].ok

\* C14 (as claimed): --since N on a history of at least N non-merge commits,
\* none pre-annotated, without dry-run: the run that reaches its summary has
\* annotated = N and skipped = 0.
C14_SinceAnnotatesAll ==
    (Summarised /\ ret = "nil" /\ SinceOnFreshHistory) =>
        (annotated = args.since /\ skipped = 0)

\* C14 (amended): the same when, besides, each of the N commits has a
\* non-empty diff and no collaborator fails: the run then ends with
\* annotated = N, skipped = 0 and failed = 0, unless the oldest of the N has
\* an empty subject, in which case the listing crashes before any outcome.
C14_SinceAnnotatesAllWithDiffs ==
    (pc = "done" /\ SinceOnFreshHistory /\ NoFailure
       /\ \A k \in 1..args.since : history[k].Diff # <<>>) =>
        IF history[args.since].Subject = <<>>
        THEN ret = "panic" /\ results = <<>>
        ELSE /\ annotated = args.since /\ skipped = 0 /\ failed = 0
             /\ Len(commits) = args.since
             /\ \A j \in 1..Len(results) : results[j].Status = "success"

C14_Witness ==
    /\ Summarised /\ ret = "nil" /\ SinceOnFreshHistory /\ NoFailure
    /\ args.since = 2
    /\ annotated = 2 /\ skipped = 0
    /\ Statuses("success") = {1, 2}

\* Some call of operation op for hash h, with result ok, precedes position k
PrecededBy(k, op, h, ok) ==
    \E j \in 1..(k - 1) : calls[j].op = op /\ calls[j].hash = h /\ calls[j].ok = ok

StageOrder ==
    /\ \A k \in 1..Len(calls) :
          /\ (calls[k].op = "show" /\ ~args.force) =>
                PrecededBy(k, "hasNote", calls[k].hash, FALSE)
          /\ calls[k].op = "generate" =>
                /\ PrecededBy(k, "show", calls[k].hash, TRUE)
                /\ DiffOf(calls[k].hash) # <<>>
          /\ calls[k].op = "addNote" =>
                PrecededBy(k, "generate", calls[k].hash, TRUE)
    /\ pc \in {"write", "attach"} =>
          PrecededBy(Len(calls) + 1, "generate", Commit.Hash, TRUE)

GatedTriggersNothing ==
    \A j \in 1..Len(results) :
        results[j].Message = "already annotated" =>
            /\ CallsOf("hasNote", commits[j].Hash) # {}
            /\ CallsOf("show", commits[j].Hash) = {}
            /\ CallsOf("generate", commits[j].Hash) = {}
            /\ CallsOf("addNote", commits[j].Hash) = {}

NoDiffTriggersNoRequest ==
    \A j \in 1..Len(results) :
        results[j].Message \in {"no diff (merge commit?)",
                                "failed to get diff: git show failed"} =>
            /\ CallsOf("show", commits[j].Hash) # {}
            /\ CallsOf("generate", commits[j].Hash) = {}
            /\ CallsOf("addNote", commits[j].Hash) = {}

\* C15: for every commit the note-exists check (when force is false) precedes
\* the diff fetch, which precedes the generation request, which precedes
\* note-add; a commit skipped by the gate triggers no diff fetch, no backend
\* request and no note-add, and a commit with an empty or failed diff
\* triggers no backend request.
C15_GateBeforeDiffBeforeGenerate ==
    StageOrder /\ GatedTriggersNothing /\ NoDiffTriggersNoRequest

C15_Witness ==
    /\ Summarised
    /\ ~args.force
    /\ Len(commits) = 2
    /\ results[1].Message = "already annotated"
    /\ results[2].Status = "success"
    /\ [k \in 1..Len(calls) |-> calls[k].op] =
          <<"log", "validate", "hasNote", "hasNote", "show", "generate", "addNote">>

Stages == {"show", "generate", "addNote"}

\* No operation is invoked twice for one commit
AtMostOncePerCommit ==
    \A k \in 1..Len(calls) : \A j \in 1..(k - 1) :
        calls[j].op = calls[k].op => calls[j].hash # calls[k].hash

\* A stage that failed for a commit is the last invocation for that commit
FirstFailureTerminal ==
    \A k \in 1..Len(calls) :
        (calls[k].op \in Stages /\ ~calls[k].ok) =>
            /\ \A j \in (k + 1)..Len(calls) : calls[j].hash # calls[k].hash
            /\ \E j \in 1..Len(results) :
                  /\ commits[j].Hash = calls[k].hash
                  /\ results[j].Status = "failed"

\* A failure leaves the run going: the loop stands at the next commit with
\* nothing returned, and every candidate has its outcome at the summary
LaterCommitsUnaffected ==
    /\ (InLoop /\ failed > 0) => (ret = "" /\ Len(results) = idx - 1)
    /\ (pc = "gate" /\ idx <= Len(commits)) =>
          \A k \in 1..Len(calls) : calls[k].hash # Commit.Hash
    /\ Summarised => Len(results) = Len(commits)

\* C16: within one run each of diff fetch, generation request and note-add is
\* invoked at most once per candidate commit; the first failure at a stage is
\* terminal for that commit only: no later stage runs for it, and the later
\* commits are processed as usual.
C16_NoRetries ==
    AtMostOncePerCommit /\ FirstFailureTerminal /\ LaterCommitsUnaffected

C16_Witness ==
    /\ Summarised
    /\ Len(commits) = 2
    /\ results[1].Message = "failed to generate annotation: AI request failed"
    /\ results[2].Status = "success"
    /\ Cardinality(CallsOf("generate", commits[1].Hash)) = 1
    /\ CallsOf("addNote", commits[1].Hash) = {}
    /\ Cardinality(CallsOf("addNote", commits[2].Hash)) = 1

NoteStateKept(h) ==
    /\ hasNote(notes, h) <=> hasNote(notes0, h)
    /\ hasNote(notes, h) => notes[h] = notes0[h]

\* C17 (as claimed): after a run every commit whose outcome is "success" has
\* a note equal to the annotation of that outcome, and every commit whose
\* outcome is "skipped", "failed" or "preview" has the note state it had
\* before the run.
C17_SuccessHasNote ==
    pc = "done" =>
        \A j \in 1..Len(results) :
            LET h == commits[j].Hash
            IN  IF results[j].Status = "success"
                THEN hasNote(notes, h) /\ notes[h] = results[j].Annotation
                ELSE NoteStateKept(h)

Found(h) == \E k \in CallsOf("hasNote", h) : calls[k].ok

Succeeded(op, h) == \E k \in CallsOf(op, h) : calls[k].ok

Erred(op, h) == \E k \in CallsOf(op, h) : ~calls[k].ok

\* The label of the branch where commit h left the loop body
ExitBranch(h) ==
    IF ~args.force /\ Found(h) THEN "skipped"
    ELSE IF Erred("show", h) THEN "failed"
    ELSE IF DiffOf(h) = <<>> THEN "skipped"
    ELSE IF Erred("generate", h) THEN "failed"
    ELSE IF args.dryRun THEN "preview"
    ELSE IF Erred("addNote", h) THEN "failed"
    ELSE "success"

StatusOfBranch ==
    \A j \in 1..Len(results) :
        LET h == commits[j].Hash
            st == results[j].Status
        IN  /\ st = ExitBranch(h)
            /\ st = "skipped" <=>
                  ((~args.force /\ Found(h)) \/ (Succeeded("show", h) /\ DiffOf(h) = <<>>))
            /\ st = "failed" <=>
                  (Erred("show", h) \/ Erred("generate", h) \/ Erred("addNote", h))
            /\ st = "preview" <=> (Succeeded("generate", h) /\ args.dryRun)
            /\ st = "success" <=> Succeeded("addNote", h)

\* C18 (as claimed): the status of an outcome is the label of the branch where
\* the commit left the loop body, a function of (force, note present, diff
\* result, generation result, dry-run, note-add result), and the outcome
\* carries annotation text exactly when its status is "success" or "preview".
C18_StatusAndAnnotation ==
    /\ StatusOfBranch
    /\ \A j \in 1..Len(results) :
          results[j].Annotation # <<>> <=> results[j].Status \in {"success", "preview"}

\* C19: the staging file addNote creates is removed by the time addNote
\* returns, whether the write and the attach succeed or fail: outside addNote
\* no staging file exists, and inside it there is exactly the one it created.
C19_StagingFileRemoved ==
    /\ pc \in {"write", "attach"} => tmpFiles = 1
    /\ pc \notin {"write", "attach"} => tmpFiles = 0

C19_Witness ==
    /\ Summarised
    /\ Len(commits) = 2
    /\ \E k \in CallsOf("addNote", commits[1].Hash) : calls[k].why = "failed to write note"
    /\ \E k \in CallsOf("addNote", commits[2].Hash) : calls[k].why = "git notes failed"
    /\ tmpFiles = 0

====
